---- MODULE Spec2Model ----
(***************************************************************************)
(* Model of src/app.py: the load loop over data/dados_*.csv, the per       *)
(* (Client, Date) "Total" aggregation, the sidebar filter and the summary  *)
(* metrics.                                                                *)
(*                                                                         *)
(* A DataFrame is a sequence of rows (records); its RangeIndex is the      *)
(* position in the sequence.  A cell that pandas holds as NaT or NaN is    *)
(* the empty tuple, a present value v is the one-element tuple <<v>>.      *)
(* Text is a tuple of one-character strings, so that str.replace is        *)
(* computed as Python computes it.  Volume and Amount are integers: the    *)
(* rounding of float64 sums is outside the model.                          *)
(***************************************************************************)
EXTENDS Integers, Sequences, FiniteSets, TLC

\* ------------------------------------------------------------------ bounds
\* Number of rows the files of one run hold together.
MaxRows == 2

\* ------------------------------------------------------------------- text
DataPath == <<"d", "a", "t", "a">>
Prefix == <<"d", "a", "d", "o", "s", "_">>
Suffix == <<".", "c", "s", "v">>
Sep == <<"/">>

\* Characters in code-point order (sorted() and groupby sort by code point).
Alphabet == <<".", "/", "_", "a", "b", "c", "d", "o", "s", "t", "v">>

Ord(ch) == CHOOSE k \in 1..Len(Alphabet) : Alphabet[k] = ch

RECURSIVE StrLess(_, _)
StrLess(s, t) ==
    IF t = <<>> THEN FALSE
    ELSE IF s = <<>> THEN TRUE
    ELSE IF Head(s) = Head(t) THEN StrLess(Tail(s), Tail(t))
    ELSE Ord(Head(s)) < Ord(Head(t))

\* os.path.join(data_path, name)
PathJoin(dir, name) == dir \o Sep \o name

\* os.path.basename: what follows the last "/"
RECURSIVE Basename(_)
Basename(p) ==
    IF \E k \in 1..Len(p) : p[k] = "/"
    THEN Basename(Tail(p))
    ELSE p

StartsWith(s, old) == Len(s) >= Len(old) /\ SubSeq(s, 1, Len(old)) = old

\* str.replace(old, ""): every non-overlapping occurrence, left to right
RECURSIVE Replace(_, _)
Replace(s, old) ==
    IF Len(s) < Len(old) THEN s
    ELSE IF StartsWith(s, old) THEN Replace(SubSeq(s, Len(old) + 1, Len(s)), old)
    ELSE <<Head(s)>> \o Replace(Tail(s), old)

client_name(file) == Replace(Replace(Basename(file), Prefix), Suffix)

\* Names in data/ that match dados_*.csv.  Two of them give the client "a".
FileNames ==
    { Prefix \o <<"a">> \o Suffix,
      Prefix \o <<"b">> \o Suffix,
      Prefix \o Prefix \o <<"a">> \o Suffix }

Paths == { PathJoin(DataPath, n) : n \in FileNames }

\* ------------------------------------------------------------------ cells
NaT == <<>>
NaN == <<>>

\* Date cells as the fields of a YYYY-MM-DD text; the third is no calendar day.
DateCells == { <<2024, 1, 1>>, <<2024, 1, 2>>, <<2024, 2, 30>> }
Operations == { "deposit", "Total" }
\* The numeric cells of a row: Volume is a number, Amount a number or empty.
ValueCells == { [Volume |-> 1, Amount |-> NaN], [Volume |-> 2, Amount |-> <<10>>] }

IsLeap(y) == (y % 4 = 0 /\ y % 100 # 0) \/ y % 400 = 0

DaysInMonth(y, m) ==
    IF m = 2 THEN (IF IsLeap(y) THEN 29 ELSE 28)
    ELSE IF m \in {4, 6, 9, 11} THEN 30 ELSE 31

\* pd.to_datetime(errors="coerce", format="%Y-%m-%d") of one cell; a Timestamp
\* is the number YYYYMMDD, which orders as the dates do.
to_datetime(cell) ==
    IF /\ Len(cell) = 3
       /\ cell[2] \in 1..12
       /\ cell[3] \in 1..DaysInMonth(cell[1], cell[2])
    THEN << cell[1] * 10000 + cell[2] * 100 + cell[3] >>
    ELSE NaT

notna(x) == x # <<>>

\* Rows pd.read_csv can return
CsvRows ==
    { [Date |-> d, Operation |-> o, Volume |-> v.Volume, Amount |-> v.Amount] :
        d \in DateCells, o \in Operations, v \in ValueCells }


\* What lines 28-29 do with a file: pd.read_csv raises (or the frame has no Date
\* column and line 29 raises), or a frame of rows is read.  Volume and Amount
\* are numeric columns; an empty Amount cell is NaN.
ReadResults(budget) ==
    { [raises |-> TRUE, rows |-> <<>>] } \cup
    { [raises |-> FALSE, rows |-> r] :
        r \in UNION { [1..k -> CsvRows] : k \in 0..budget } }

\* ------------------------------------------------------------------ state
VARIABLES
    csv_files,          \* glob.glob(...): the matched paths, in glob's order
    i,                  \* files of csv_files the loop has processed
    read,               \* history: what read_csv did for each processed file
    all_dfs,            \* the accepted frames
    origin,             \* history: the file each frame of all_dfs was read from
    errors,             \* the st.error notices, in order
    warning,            \* st.warning("Nenhum dado encontrado...") was shown
    pc,                 \* "load", "widgets", "done", "nodata"
    total_df,
    combined_df,
    selected_clients,
    start_date,
    end_date,
    filtered_df,
    total_volume,
    total_amount

vars == << csv_files, i, read, all_dfs, origin, errors, warning, pc, total_df, combined_df,
           selected_clients, start_date, end_date, filtered_df, total_volume,
           total_amount >>

view_vars == << total_df, combined_df, selected_clients, start_date, end_date,
                filtered_df, total_volume, total_amount >>

\* ------------------------------------------------------------ frame helpers
RECURSIVE Sum(_)
Sum(s) == IF s = <<>> THEN 0 ELSE Head(s) + Sum(Tail(s))

\* Series.sum() with skipna=True, min_count=0: NaN cells are left out, and a
\* series with no present cell sums to 0.
RECURSIVE SumSkipNa(_)
SumSkipNa(s) ==
    IF s = <<>> THEN 0
    ELSE (IF notna(Head(s)) THEN Head(s)[1] ELSE 0) + SumSkipNa(Tail(s))

RECURSIVE Concat(_)
Concat(dfs) == IF dfs = <<>> THEN <<>> ELSE Head(dfs) \o Concat(Tail(dfs))

RowsRead == Sum([k \in 1..Len(read) |-> Len(read[k].rows)])

\* Lines 29-30: the Date column parsed, the Client column added.
ParseFrame(rows, file) ==
    [k \in 1..Len(rows) |->
        [Date |-> to_datetime(rows[k].Date),
         Operation |-> rows[k].Operation,
         Volume |-> rows[k].Volume,
         Amount |-> rows[k].Amount,
         Client |-> client_name(file)]]

\* Variant of AllDatesNull: .any() in place of .all().
AllDatesNullAny(df) == \E k \in 1..Len(df) : ~notna(df[k].Date)

\* df["Date"].isnull().all()
AllDatesNull(df) == \A k \in 1..Len(df) : ~notna(df[k].Date)

\* ------------------------------------------------------------------- load
\* What glob.glob can return: any set of the matching paths.  The order is the
\* file system's; the loop body reads nothing an earlier iteration wrote except
\* the lists it appends to, and the paths are taken in code-point order.
GlobResults ==
    { s \in UNION { [1..n -> Paths] : n \in 0..Cardinality(Paths) } :
        \A a, b \in 1..Len(s) : a < b => StrLess(s[a], s[b]) }

Init ==
    /\ csv_files \in GlobResults
    /\ i = 0
    /\ read = <<>>
    /\ all_dfs = <<>>
    /\ origin = <<>>
    /\ errors = <<>>
    /\ warning = FALSE
    /\ pc = "load"
    /\ total_df = <<>>
    /\ combined_df = <<>>
    /\ selected_clients = {}
    /\ start_date = NaT
    /\ end_date = NaT
    /\ filtered_df = <<>>
    /\ total_volume = 0
    /\ total_amount = 0

\* Variant of LoadBody: the except clause shows no notice.
LoadBodySilent(file, c) ==
    IF c.raises
    THEN /\ errors' = errors
         /\ all_dfs' = all_dfs
         /\ origin' = origin
    ELSE LET df == ParseFrame(c.rows, file) IN
         IF AllDatesNull(df)
         THEN /\ errors' = Append(errors, [file |-> file, kind |-> "no_valid_date"])
              /\ all_dfs' = all_dfs
              /\ origin' = origin
         ELSE /\ errors' = errors
              /\ all_dfs' = Append(all_dfs, df)
              /\ origin' = Append(origin, file)

\* One iteration of "for file in csv_files" (lines 22-38).
LoadBody(file, c) ==
    IF c.raises
    THEN /\ errors' = Append(errors, [file |-> file, kind |-> "exception"])
         /\ all_dfs' = all_dfs
         /\ origin' = origin
    ELSE LET df == ParseFrame(c.rows, file) IN
         IF AllDatesNull(df)
         THEN /\ errors' = Append(errors, [file |-> file, kind |-> "no_valid_date"])
              /\ all_dfs' = all_dfs
              /\ origin' = origin
         ELSE /\ errors' = errors
              /\ all_dfs' = Append(all_dfs, df)
              /\ origin' = Append(origin, file)

\* Variant of ProcessFile: the try statement is around the loop, so that the
\* first exception ends it.
ProcessFileAbort ==
    /\ pc = "load"
    /\ i < Len(csv_files)
    /\ \E c \in ReadResults(MaxRows - RowsRead) :
        /\ LoadBody(csv_files[i + 1], c)
        /\ read' = Append(read, c)
        /\ i' = IF c.raises THEN Len(csv_files) ELSE i + 1
    /\ UNCHANGED << csv_files, warning, pc >>
    /\ UNCHANGED view_vars

ProcessFile ==
    /\ pc = "load"
    /\ i < Len(csv_files)
    /\ \E c \in ReadResults(MaxRows - RowsRead) :
        /\ LoadBody(csv_files[i + 1], c)
        /\ read' = Append(read, c)
    /\ i' = i + 1
    /\ UNCHANGED << csv_files, warning, pc >>
    /\ UNCHANGED view_vars

\* Lines 202-203: the else branch of "if all_dfs".
NoData ==
    /\ pc = "load"
    /\ i = Len(csv_files)
    /\ all_dfs = <<>>
    /\ warning' = TRUE
    /\ pc' = "nodata"
    /\ UNCHANGED << csv_files, i, read, all_dfs, origin, errors >>
    /\ UNCHANGED view_vars

\* ---------------------------------------------------------------- combine
\* Order of the group keys: by Client, then by Date (groupby sorts its keys).
KeyLess(a, b) ==
    \/ StrLess(a[1], b[1])
    \/ a[1] = b[1] /\ a[2][1] < b[2][1]

RECURSIVE SortKeys(_)
SortKeys(S) ==
    IF S = {} THEN <<>>
    ELSE LET m == CHOOSE x \in S : \A y \in S \ {x} : KeyLess(x, y)
         IN  <<m>> \o SortKeys(S \ {m})

\* groupby(["Client", "Date"]).agg({"Volume": "sum", "Amount": "sum"}): one pass
\* over the rows; a row whose Date is NaT is in no group (dropna=True), and a
\* NaN Amount adds nothing to its group's sum.
\* Variant of GroupSums: a row overwrites the sums of its group.
RECURSIVE GroupSumsLast(_, _)
GroupSumsLast(df, acc) ==
    IF df = <<>> THEN acc
    ELSE LET r == Head(df)
             key == << r.Client, r.Date >>
             add == IF notna(r.Amount) THEN r.Amount[1] ELSE 0
         IN  GroupSumsLast(Tail(df),
                IF ~notna(r.Date) THEN acc
                ELSE IF key \in DOMAIN acc
                THEN [acc EXCEPT ![key] = [Volume |-> r.Volume, Amount |-> add]]
                ELSE acc @@ (key :> [Volume |-> r.Volume, Amount |-> add]))

RECURSIVE GroupSums(_, _)
GroupSums(df, acc) ==
    IF df = <<>> THEN acc
    ELSE LET r == Head(df)
             key == << r.Client, r.Date >>
             add == IF notna(r.Amount) THEN r.Amount[1] ELSE 0
         IN  GroupSums(Tail(df),
                IF ~notna(r.Date) THEN acc
                ELSE IF key \in DOMAIN acc
                THEN [acc EXCEPT ![key] = [Volume |-> @.Volume + r.Volume,
                                           Amount |-> @.Amount + add]]
                ELSE acc @@ (key :> [Volume |-> r.Volume, Amount |-> add]))

\* Lines 45-49: the grouped sums as a frame, with Operation = "Total".
TotalFrame(df) ==
    LET acc == GroupSums(df, <<>>)
        keys == SortKeys(DOMAIN acc)
    IN  [k \in 1..Len(keys) |->
            [Client |-> keys[k][1],
             Date |-> keys[k][2],
             Volume |-> acc[keys[k]].Volume,
             Amount |-> << acc[keys[k]].Amount >>,
             Operation |-> "Total"]]

\* Variant of Combine: without the test "if all_dfs".
CombineUnguarded ==
    /\ pc = "load"
    /\ i = Len(csv_files)
    /\ LET raw == Concat(all_dfs)
           tot == TotalFrame(raw)
       IN  /\ total_df' = tot
           /\ combined_df' = raw \o tot
    /\ pc' = "widgets"
    /\ UNCHANGED << csv_files, i, read, all_dfs, origin, errors, warning, selected_clients,
                    start_date, end_date, filtered_df, total_volume, total_amount >>

\* Lines 41-52: the if branch of "if all_dfs".
Combine ==
    /\ pc = "load"
    /\ i = Len(csv_files)
    /\ all_dfs # <<>>
    /\ LET raw == Concat(all_dfs)
           tot == TotalFrame(raw)
       IN  /\ total_df' = tot
           /\ combined_df' = raw \o tot
    /\ pc' = "widgets"
    /\ UNCHANGED << csv_files, i, read, all_dfs, origin, errors, warning, selected_clients,
                    start_date, end_date, filtered_df, total_volume, total_amount >>

\* ----------------------------------------------------------------- render
\* datetime.now().date(), used when the Date column holds no date at all.
Now == << 20261101 >>

PresentDates(df) == { df[k].Date[1] : k \in { j \in 1..Len(df) : notna(df[j].Date) } }

Min(S) == CHOOSE x \in S : \A y \in S : x <= y
Max(S) == CHOOSE x \in S : \A y \in S : x >= y

\* Lines 68-69
min_date(df) == IF PresentDates(df) # {} THEN Min(PresentDates(df)) ELSE Now[1]
max_date(df) == IF PresentDates(df) # {} THEN Max(PresentDates(df)) ELSE Now[1]

IsDate(n) ==
    LET y == n \div 10000
        m == (n \div 100) % 100
        d == n % 100
    IN  m \in 1..12 /\ d \in 1..DaysInMonth(y, m)

\* What st.sidebar.date_input can return: a pair of days of [min_value,
\* max_value] in order, or one day while the second is not chosen yet.
DateRanges(df) ==
    LET days == { n \in min_date(df)..max_date(df) : IsDate(n) }
    IN  { p \in days \X days : p[1] <= p[2] } \cup { <<a>> : a \in days }

\* Line 59: the options of the multiselect
clients(df) == { df[k].Client : k \in 1..Len(df) }

\* Variant of InFilter: the end of the range is excluded.
InFilterOpenEnd(r, sel, start, end) ==
    /\ r.Client \in sel
    /\ notna(r.Date)
    /\ r.Date[1] >= start
    /\ r.Date[1] < end

\* Lines 88-93: the rows kept, each with its index label.
InFilter(r, sel, start, end) ==
    /\ r.Client \in sel
    /\ notna(r.Date)
    /\ r.Date[1] >= start
    /\ r.Date[1] <= end

RECURSIVE FilterFrame(_, _, _, _, _)
FilterFrame(df, k, sel, start, end) ==
    IF k > Len(df) THEN <<>>
    ELSE (IF InFilter(df[k], sel, start, end)
          THEN << [index |-> k, row |-> df[k]] >>
          ELSE <<>>) \o FilterFrame(df, k + 1, sel, start, end)

\* filtered_df[filtered_df["Operation"] == "Total"]
TotalRows(fdf) == SelectSeq(fdf, LAMBDA e : e.row.Operation = "Total")

\* Lines 98-99
SummaryVolume(fdf) == Sum([k \in 1..Len(TotalRows(fdf)) |-> TotalRows(fdf)[k].row.Volume])
SummaryAmount(fdf) == SumSkipNa([k \in 1..Len(TotalRows(fdf)) |-> TotalRows(fdf)[k].row.Amount])

\* Lines 59-101: the widgets' values, the filter and the two metrics.
Render ==
    /\ pc = "widgets"
    /\ \E sel \in SUBSET clients(combined_df), range \in DateRanges(combined_df) :
        LET start == range[1]
            end == IF Len(range) = 2 THEN range[2] ELSE range[1]
            fdf == FilterFrame(combined_df, 1, sel, start, end)
        IN  /\ selected_clients' = sel
            /\ start_date' = << start >>
            /\ end_date' = << end >>
            /\ filtered_df' = fdf
            /\ total_volume' = SummaryVolume(fdf)
            /\ total_amount' = SummaryAmount(fdf)
    /\ pc' = "done"
    /\ UNCHANGED << csv_files, i, read, all_dfs, origin, errors, warning, total_df, combined_df >>

Next == ProcessFile \/ NoData \/ Combine \/ Render

Spec == Init /\ [][Next]_vars

\* =================================================================== claims
\* Vocabulary of the properties below.
Aggregated == pc \in {"widgets", "done"}

\* combined_df is the rows read from the files, then the rows of total_df.
nRaw == Len(combined_df) - Len(total_df)
RawIdx == 1..nRaw
DerivedIdx == (nRaw + 1)..Len(combined_df)

RECURSIVE SumOver(_, _)
SumOver(S, f) ==
    IF S = {} THEN 0
    ELSE LET x == CHOOSE y \in S : TRUE IN f[x] + SumOver(S \ {x}, f)

VolumeOf == [k \in 1..Len(combined_df) |-> combined_df[k].Volume]
AmountOf == [k \in 1..Len(combined_df) |->
                IF combined_df[k].Amount = NaN THEN 0 ELSE combined_df[k].Amount[1]]

\* The (client, date) pairs of the rows read from the files that have a date.
SourcePairs ==
    { << combined_df[k].Client, combined_df[k].Date >> :
        k \in { j \in RawIdx : combined_df[j].Date # NaT } }

Members(S, pair) ==
    { k \in S : combined_df[k].Client = pair[1] /\ combined_df[k].Date = pair[2] }

\* A processed file is rejected when read_csv raised or no date of it parses.
Rejected(k) ==
    \/ read[k].raises
    \/ \A j \in 1..Len(read[k].rows) : to_datetime(read[k].rows[j].Date) = NaT

ErrorsNaming(file) == { e \in 1..Len(errors) : errors[e].file = file }
FramesFrom(file) == { j \in 1..Len(origin) : origin[j] = file }

\* C1: for every (client, date) group of rows read from the files, the Total
\* row derived for the group carries the sum of the group's volumes and, when
\* an amount of the group is present, the sum of its amounts.
AggregationCorrect ==
    Aggregated =>
        \A pair \in SourcePairs :
            /\ Members(DerivedIdx, pair) # {}
            /\ \A t \in Members(DerivedIdx, pair) :
                /\ combined_df[t].Operation = "Total"
                /\ combined_df[t].Volume = SumOver(Members(RawIdx, pair), VolumeOf)
                /\ (\E k \in Members(RawIdx, pair) : combined_df[k].Amount # NaN)
                    => combined_df[t].Amount =
                            << SumOver(Members(RawIdx, pair), AmountOf) >>

\* Two rows of one client and day, both with an amount, and their Total row.
AggregationWitness ==
    /\ Aggregated
    /\ \E pair \in SourcePairs :
        /\ Cardinality(Members(RawIdx, pair)) = 2
        /\ \A k \in Members(RawIdx, pair) :
            combined_df[k].Volume = 2 /\ combined_df[k].Amount = <<10>>
        /\ \E t \in Members(DerivedIdx, pair) :
            combined_df[t].Volume = 4 /\ combined_df[t].Amount = <<20>>

\* C2: after the aggregation, every (client, date) pair of the source data has
\* exactly one row whose Operation is "Total".
ExactlyOneTotalPerPair ==
    Aggregated =>
        \A pair \in SourcePairs :
            Cardinality({ k \in Members(1..Len(combined_df), pair) :
                            combined_df[k].Operation = "Total" }) = 1

\* C3: the Total row of a group whose amounts are all missing has a missing
\* amount; with an amount present, the missing ones count as 0.
MissingAmountPropagates ==
    Aggregated =>
        \A pair \in SourcePairs :
            \A t \in Members(DerivedIdx, pair) :
                IF \A k \in Members(RawIdx, pair) : combined_df[k].Amount = NaN
                THEN combined_df[t].Amount = NaN
                ELSE combined_df[t].Amount =
                        << SumOver(Members(RawIdx, pair), AmountOf) >>

\* A row the chosen clients and date range admit.
Kept(r) ==
    /\ r.Client \in selected_clients
    /\ r.Date # NaT
    /\ start_date[1] <= r.Date[1]
    /\ r.Date[1] <= end_date[1]

\* C4: the filtered frame is exactly the rows of the aggregated frame whose
\* client is selected, whose date is present and whose date lies in
\* [start, end], both ends included; the rows without a date stay in the
\* unfiltered frame.
FilterCorrect ==
    pc = "done" =>
        /\ \A j \in 1..Len(filtered_df) :
            /\ filtered_df[j].index \in 1..Len(combined_df)
            /\ filtered_df[j].row = combined_df[filtered_df[j].index]
            /\ Kept(filtered_df[j].row)
        /\ \A j \in 1..(Len(filtered_df) - 1) :
            filtered_df[j].index < filtered_df[j + 1].index
        /\ \A k \in 1..Len(combined_df) :
            Kept(combined_df[k]) => \E j \in 1..Len(filtered_df) : filtered_df[j].index = k
        /\ combined_df = Concat(all_dfs) \o total_df
        /\ Cardinality({ k \in 1..Len(combined_df) : combined_df[k].Date = NaT }) =
           SumOver({ k \in 1..Len(read) : ~Rejected(k) },
                   [k \in 1..Len(read) |->
                        Cardinality({ j \in 1..Len(read[k].rows) :
                                        to_datetime(read[k].rows[j].Date) = NaT })])

\* A filter that keeps a row dated on each end of the range and drops a row of
\* a selected client for its date, a row for its client, or a row without date.
FilterWitness ==
    /\ pc = "done"
    /\ \E j \in 1..Len(filtered_df) : filtered_df[j].row.Date = start_date
    /\ \E j \in 1..Len(filtered_df) : filtered_df[j].row.Date = end_date
    /\ \E k \in 1..Len(combined_df) :
        /\ ~Kept(combined_df[k])
        /\ combined_df[k].Client \in selected_clients
        /\ combined_df[k].Date # NaT

\* C5: the reported totals are the totals of the rows read from the files that
\* are in the filtered frame, whenever it holds such rows and Total rows.
SummaryIsTrueTotal ==
    LET rawKept == { filtered_df[j].index : j \in 1..Len(filtered_df) } \cap RawIdx
    IN  (/\ pc = "done"
         /\ rawKept # {}
         /\ \E j \in 1..Len(filtered_df) : filtered_df[j].row.Operation = "Total")
        => /\ total_volume = SumOver(rawKept, VolumeOf)
           /\ total_amount = SumOver(rawKept, AmountOf)

\* C6: a processed file that raised or has no valid date has no frame in
\* all_dfs, no row in the combined frame, and exactly one notice naming it.
FileRejection ==
    /\ \A k \in 1..i :
        Rejected(k) =>
            /\ FramesFrom(csv_files[k]) = {}
            /\ Cardinality(ErrorsNaming(csv_files[k])) = 1
    /\ Aggregated =>
        nRaw = SumOver({ k \in 1..Len(read) : ~Rejected(k) },
                       [k \in 1..Len(read) |-> Len(read[k].rows)])

\* A file of rows whose dates all fail to parse, and one that raised, both
\* processed, beside an accepted file.
FileRejectionWitness ==
    /\ Aggregated
    /\ \E k \in 1..i : ~read[k].raises /\ read[k].rows # <<>> /\ Rejected(k)
    /\ \E k \in 1..i : read[k].raises

\* The frame a processed file gives when it is accepted.
Expected(k) ==
    [j \in 1..Len(read[k].rows) |->
        [Date |-> to_datetime(read[k].rows[j].Date),
         Operation |-> read[k].rows[j].Operation,
         Volume |-> read[k].rows[j].Volume,
         Amount |-> read[k].rows[j].Amount,
         Client |-> client_name(csv_files[k])]]

\* C7: whatever happens to the other files, every matched file is processed, and
\* every file that is not rejected has its frame, with all of its rows, in
\* all_dfs; the frames are in the order of the files.
FailureIsolation ==
    /\ Len(read) = i
    /\ pc # "load" => Len(read) = Len(csv_files)
    /\ \A k \in 1..Len(read) :
        ~Rejected(k) =>
            LET pos == Cardinality({ m \in 1..k : ~Rejected(m) })
            IN  /\ pos <= Len(all_dfs)
                /\ all_dfs[pos] = Expected(k)
                /\ origin[pos] = csv_files[k]
    /\ Aggregated =>
        \A j \in 1..Len(all_dfs) : \A r \in 1..Len(all_dfs[j]) :
            \E k \in RawIdx : combined_df[k] = all_dfs[j][r]

\* A rejected file before and after an accepted one.
FailureIsolationWitness ==
    /\ pc # "load"
    /\ \E a, b, c \in 1..Len(read) :
        /\ a < b /\ b < c
        /\ Rejected(a) /\ ~Rejected(b) /\ Rejected(c)
        /\ read[a].raises /\ ~read[c].raises

\* The dated rows of the accepted files; the filter that excludes no dated row.
ValidRows ==
    SumOver({ k \in 1..Len(read) : ~Rejected(k) },
            [k \in 1..Len(read) |->
                Cardinality({ j \in 1..Len(read[k].rows) :
                                to_datetime(read[k].rows[j].Date) # NaT })])

WidestFilter ==
    /\ selected_clients = { combined_df[k].Client : k \in 1..Len(combined_df) }
    /\ \A k \in 1..Len(combined_df) :
        combined_df[k].Date # NaT =>
            start_date[1] <= combined_df[k].Date[1] /\ combined_df[k].Date[1] <= end_date[1]

\* C8: a file with at least one valid date is accepted without a notice; of its
\* rows, exactly those with a valid date reach the Total rows and, under the
\* widest filter, the filtered frame.
PartialFileSuccess ==
    /\ \A k \in 1..i :
        (~read[k].raises /\ \E j \in 1..Len(read[k].rows) :
                                to_datetime(read[k].rows[j].Date) # NaT)
        => /\ ErrorsNaming(csv_files[k]) = {}
           /\ FramesFrom(csv_files[k]) # {}
    /\ Aggregated =>
        SumOver(DerivedIdx, VolumeOf) =
            SumOver({ k \in RawIdx : combined_df[k].Date # NaT }, VolumeOf)
    /\ (pc = "done" /\ WidestFilter) =>
        Cardinality({ j \in 1..Len(filtered_df) : filtered_df[j].index \in RawIdx })
            = ValidRows

\* A file with a dated row and an undated row, accepted, under the widest filter.
PartialFileWitness ==
    /\ pc = "done"
    /\ WidestFilter
    /\ \E k \in 1..i :
        /\ ~Rejected(k)
        /\ \E j \in 1..Len(read[k].rows) : to_datetime(read[k].rows[j].Date) = NaT
    /\ Cardinality({ j \in 1..Len(filtered_df) : filtered_df[j].index \in RawIdx }) = 1

\* C9: the run ends with the "no data" warning exactly when no file was
\* accepted, and then nothing is aggregated, filtered or summed; a run that
\* aggregates has a frame with rows.
NoDataIffNothingAccepted ==
    /\ warning <=> pc = "nodata"
    /\ pc # "load" => (pc = "nodata" <=> \A k \in 1..Len(read) : Rejected(k))
    /\ pc = "nodata" =>
        /\ combined_df = <<>> /\ total_df = <<>> /\ filtered_df = <<>>
        /\ start_date = NaT /\ end_date = NaT
        /\ total_volume = 0 /\ total_amount = 0
    /\ Aggregated => Concat(all_dfs) # <<>> /\ nRaw > 0 /\ total_df # <<>>

\* Files were matched, all were rejected, and the warning is shown.
NoDataWitness ==
    /\ pc = "nodata"
    /\ Len(csv_files) >= 2
    /\ \A k \in 1..Len(read) : Rejected(k)
    /\ \E k \in 1..Len(read) : read[k].rows # <<>>

\* C10: every row whose Operation is "Total" was emitted by the aggregation,
\* and a Total row sums only the rows of its group not labelled "Total".
TotalsOnlyFromAggregation ==
    Aggregated =>
        /\ \A k \in 1..Len(combined_df) :
            combined_df[k].Operation = "Total" => k \in DerivedIdx
        /\ \A t \in DerivedIdx :
            combined_df[t].Volume =
                SumOver({ k \in Members(RawIdx, << combined_df[t].Client, combined_df[t].Date >>) :
                            combined_df[k].Operation # "Total" }, VolumeOf)

====
